---- MODULE Spec2Model ----
(***************************************************************************)
(* Model of caffe2/core/net_simple.cc: the SimpleNet executor.             *)
(*                                                                         *)
(* A SimpleNet is constructed from a NetDef (an ordered list of            *)
(* OperatorDef plus an optional default device option); Run() drives the   *)
(* operators in order, RunAsync() is Run(), and TEST_Benchmark() wraps     *)
(* Run() in warm-up and timed loops followed by an optional per-operator   *)
(* loop.  Operators, observers and the timer are external: an operator's   *)
(* Run() result is read from `fails` (the set of positions that fail       *)
(* when invoked), and an invocation of the operator at position p costs    *)
(* OpMillis(p) timer ticks.                                                *)
(***************************************************************************)
EXTENDS Integers, Sequences, FiniteSets, TLC

\* ------------------------------------------------------------------ bounds
MaxOps == 2
MaxWarmup == 1
MaxMain == 2
MaxFailedRuns == 2
MaxMillis == 2

\* ------------------------------------------------------------- input sets
NoDevice == "none"

\* OperatorDef values the graphs are built from: {type, device_option}.
OperatorDefs ==
  { [type |-> "A", device_option |-> NoDevice],
    [type |-> "B", device_option |-> "CPU"] }

NetDeviceOptions == {NoDevice, "CUDA"}

RECURSIVE SeqsUpTo(_, _)
SeqsUpTo(S, n) ==
  IF n = 0 THEN {<<>>}
  ELSE LET shorter == SeqsUpTo(S, n - 1)
       IN  shorter \cup {Append(s, x) : s \in {t \in shorter : Len(t) = n - 1}, x \in S}

NetDefs ==
  { [device_option |-> d, op |-> ops] :
      d \in NetDeviceOptions, ops \in SeqsUpTo(OperatorDefs, MaxOps) }

\* ---------------------------------------------------------------- helpers
Zeros(n) == [k \in 1..n |-> 0]

\* float division x / n of lines 302 and 304; a zero divisor gives inf or NaN
FDiv(x, n) ==
  IF n # 0 THEN [cls |-> "finite", num |-> x, den |-> n]
  ELSE [cls |-> "nonfinite", num |-> 0, den |-> 0]

\* m[k] += v on a CaffeMap: operator[] inserts a zero entry for a new key
MapAdd(m, k, v) ==
  IF k \in DOMAIN m THEN [m EXCEPT ![k] = @ + v] ELSE m @@ (k :> v)

EmptyMap == [k \in {} |-> 0]

EvStart == [ev |-> "start", op |-> 0]
EvStop == [ev |-> "stop", op |-> 0]
EvOp(p) == [ev |-> "op", op |-> p]

NoCall == [kind |-> "none", fails |-> {}, ret |-> FALSE, trace |-> <<>>]

VARIABLES
  net_def,          \* the NetDef the net was constructed from
  operators_,       \* SimpleNet::operators_
  pc,               \* position of the single thread of control
  idx,              \* loop index of the constructor / of the per-operator loop
  kind,             \* the public method the caller is in
  caller,           \* who called the running Run(): its return address
  fails,            \* positions whose operator returns false when run
  opi,              \* position of the range-for iterator over operators_
  ret,              \* value returned by the last Run()
  warmup_runs, main_runs, run_individual,
  run_i,            \* loop counter i of TEST_Benchmark
  timer,            \* ticks since the Timer was (re)started
  millis,
  time_per_op, time_per_op_type,
  result,           \* vector returned by TEST_Benchmark
  outcome,          \* how the public call ended: returned / fatal
  trace,            \* observer notifications and operator runs of this Run()
  invoked,          \* per position: operator runs during this public call
  notified,         \* observer notifications during this public call
  op_failed,        \* an operator returned false during this public call
  detail_time,      \* per position: ticks spent in the per-operator loop
  flops_per_op, memory_bytes_per_op, param_bytes_per_op,
  flops_per_op_type, memory_bytes_per_op_type, param_bytes_per_op_type,
  resets,           \* per position: ResetEvent() calls during this public call
  cost_evals,       \* per position: InferCost() calls during this public call
  report,           \* the report logged by TEST_Benchmark
  ws,               \* per position: outputs the operator has written to the
                    \* workspace during this public call
  use_nvtx,         \* FLAGS_caffe2_use_nvtx
  range_,           \* ProfiledRange::range_ of the live ProfiledRange r
  nvtx,             \* ranges started / ended during this public call, and
                    \* nvtxRangeEnd calls on an id that is not a started range
  open_ranges,      \* ids of the ranges started and not ended
  flag_changed,     \* use_nvtx was changed during this public call
  unpaired,         \* start notifications minus stop notifications so far
  failed_runs,      \* Run() calls that returned false so far
  prev              \* the Run / RunAsync call completed just before this
                    \* public call, if this one is a Run / RunAsync too

vars ==
  << net_def, operators_, pc, idx, kind, caller, fails, opi, ret,
     warmup_runs, main_runs, run_individual, run_i, timer, millis,
     time_per_op, time_per_op_type, result, outcome, trace, invoked,
     notified, op_failed, detail_time, flops_per_op, memory_bytes_per_op,
     param_bytes_per_op, flops_per_op_type, memory_bytes_per_op_type,
     param_bytes_per_op_type, resets, cost_evals, report, ws, use_nvtx, range_, nvtx, open_ranges,
     flag_changed, unpaired, failed_runs, prev >>

netVars == << net_def, operators_ >>
benchArgs == << warmup_runs, main_runs, run_individual >>
timeLocals == << millis, time_per_op, time_per_op_type, detail_time >>
costLocals ==
  << flops_per_op, memory_bytes_per_op, param_bytes_per_op,
     flops_per_op_type, memory_bytes_per_op_type, param_bytes_per_op_type >>
benchLocals == << timeLocals, costLocals, resets, cost_evals, report >>
history == << unpaired, failed_runs, prev >>
profVars == << use_nvtx, range_, nvtx, open_ranges, flag_changed >>

NoRanges == [started |-> 0, ended |-> 0, bad_end |-> 0]

NoReport == [ops |-> <<>>, types |-> <<>>]

NumOps == Len(operators_)
Positions == 1..NumOps

\* ------------------------------------------------------------ construction
has_device_option(def) == def.device_option # NoDevice

\* CreateOperator(def, ws, idx): the instance bound to def at net position idx
CreateOperator(def, position) ==
  [debug_def |-> def, net_position |-> position, owns_def |-> TRUE]

\* op->set_debug_def(shared_ptr aliasing net_def): a back-reference, not a copy
set_debug_def(op, def) == [op EXCEPT !.debug_def = def, !.owns_def = FALSE]

\* faulty variant of NewOperator: the net's device option replaces the
\* operator's own
NewOperator_Overwrite(nd, position) ==
  LET operator_def == nd.op[position + 1]
  IN  IF has_device_option(nd)
      THEN CreateOperator([operator_def EXCEPT !.device_option = nd.device_option],
                          position)
      ELSE CreateOperator(operator_def, position)

\* lines 101-113: the operator built for net_def->op(position)
NewOperator(nd, position) ==
  LET operator_def == nd.op[position + 1]
      net_def_has_device_option == has_device_option(nd)
  IN  IF ~has_device_option(operator_def) /\ net_def_has_device_option
      THEN LET temp_def == [operator_def EXCEPT !.device_option = nd.device_option]
           IN  CreateOperator(temp_def, position)
      ELSE set_debug_def(CreateOperator(operator_def, position), operator_def)

\* faulty variant of emplace_back: inserts at the front
emplace_back_Front(ops, op) == <<op>> \o ops

\* line 114: operators_.emplace_back(std::move(op))
emplace_back(ops, op) == Append(ops, op)

Init ==
  /\ net_def \in NetDefs
  /\ operators_ = <<>>
  /\ pc = "ctor"
  /\ idx = 0
  /\ kind = "SimpleNet"
  /\ caller = "none"
  /\ fails = {}
  /\ opi = 0
  /\ ret = FALSE
  /\ warmup_runs = 0
  /\ main_runs = 0
  /\ run_individual = FALSE
  /\ run_i = 0
  /\ timer = 0
  /\ millis = 0
  /\ time_per_op = <<>>
  /\ time_per_op_type = EmptyMap
  /\ result = <<>>
  /\ outcome = "none"
  /\ trace = <<>>
  /\ invoked = <<>>
  /\ notified = [start |-> 0, stop |-> 0]
  /\ op_failed = FALSE
  /\ detail_time = <<>>
  /\ flops_per_op = <<>>
  /\ memory_bytes_per_op = <<>>
  /\ param_bytes_per_op = <<>>
  /\ flops_per_op_type = EmptyMap
  /\ memory_bytes_per_op_type = EmptyMap
  /\ param_bytes_per_op_type = EmptyMap
  /\ resets = <<>>
  /\ cost_evals = <<>>
  /\ report = NoReport
  /\ ws = <<>>
  /\ use_nvtx = FALSE
  /\ range_ = 0
  /\ nvtx = NoRanges
  /\ open_ranges = {}
  /\ flag_changed = FALSE
  /\ unpaired = 0
  /\ failed_runs = 0
  /\ prev = NoCall

\* SimpleNet::SimpleNet, one iteration of the loop of lines 97-115
SimpleNet ==
  /\ pc = "ctor"
  /\ IF idx < Len(net_def.op)
     THEN /\ operators_' = emplace_back(operators_, NewOperator(net_def, idx))
          /\ idx' = idx + 1
          /\ UNCHANGED << pc, kind >>
     ELSE /\ pc' = "idle"
          /\ kind' = "none"
          /\ idx' = 0
          /\ UNCHANGED operators_
  /\ invoked' = Zeros(Len(operators_'))
  /\ resets' = Zeros(Len(operators_'))
  /\ cost_evals' = Zeros(Len(operators_'))
  /\ ws' = Zeros(Len(operators_'))
  /\ UNCHANGED << net_def, profVars, caller, fails, opi, ret, benchArgs,
                  run_i, timer, timeLocals, costLocals, report, result, outcome,
                  trace, notified, op_failed, history >>

\* ------------------------------------------------------- external objects
\* op->Run() of the operator at (1-based) position p
OpRun(p) == p \notin fails

\* outputs a run of an operator may have written when it returns: all of
\* them (1) when it succeeds, all or none when it fails
OpWrites(res) == IF res THEN {1} ELSE {0, 1}

\* timer ticks one run of the operator at position p takes
OpMillis(p) == p

PositionOf(op) == op.net_position + 1

\* OpSchemaRegistry::Schema(op_type) exists and HasCostInferenceFunction()
HasCostInferenceFunction(op_type) == op_type = "A"

\* schema->InferCost(op->debug_def(), op->InputTensorShapes())
InferCost(op) ==
  [flops |-> 10 * PositionOf(op),
   bytes_moved |-> 20 * PositionOf(op),
   params_bytes |-> 30 * PositionOf(op)]

\* ---------------------------------------------------------------- Run()
\* faulty variant of RangeFor: back to front
RangeFor_Reverse(ops, k) == ops[Len(ops) + 1 - k]

\* line 121: the k-th operator the range-for visits
RangeFor(ops, k) == ops[k]

\* faulty variants of OnOperatorResult: the failure is ignored; the observers
\* are stopped on the failure path too; the workspace is cleared on the
\* failure path
OnOperatorResult_Ignore(res) ==
  [return_false |-> FALSE, stop_observers |-> FALSE, undo |-> FALSE]

OnOperatorResult_Stop(res) ==
  [return_false |-> ~res, stop_observers |-> ~res, undo |-> FALSE]

OnOperatorResult_Undo(res) ==
  [return_false |-> ~res, stop_observers |-> FALSE, undo |-> ~res]

\* lines 136-139: what Run() does with the result of op->Run(): on false it
\* logs and returns false, and touches neither the observers nor the
\* operators nor the workspace
OnOperatorResult(res) ==
  [return_false |-> ~res, stop_observers |-> FALSE, undo |-> FALSE]

\* the caller enters Run(); the operators behave as `f` says during the call
Run ==
  /\ pc = "idle"
  /\ failed_runs < MaxFailedRuns
  /\ \E f \in SUBSET Positions :
       /\ fails' = f
       /\ kind' = "Run"
       /\ caller' = "api"
       /\ pc' = "run_begin"
  /\ \E b \in BOOLEAN : use_nvtx' = b
  /\ UNCHANGED << netVars, range_, nvtx, open_ranges, flag_changed, idx, opi,
                  ret, benchArgs, run_i, timer, benchLocals, result, outcome,
                  trace, invoked, ws, notified, op_failed, history >>

\* faulty variant of FirstOperator: a Run() that follows a failed one resumes
\* at the operator that failed
FirstOperator_Resume ==
  IF prev.kind # "none" /\ ~prev.ret THEN Len(prev.trace) - 1 ELSE 1

\* line 121: the range-for starts at operators_.begin()
FirstOperator == 1

\* lines 119-121: StartAllObservers(), then the range-for is entered
RunBegin ==
  /\ pc = "run_begin"
  /\ trace' = <<EvStart>>
  /\ notified' = [notified EXCEPT !.start = @ + 1]
  /\ unpaired' = unpaired + 1
  /\ opi' = FirstOperator
  /\ pc' = "run_loop"
  /\ UNCHANGED << netVars, profVars, idx, kind, caller, fails, ret, benchArgs, run_i,
                  timer, benchLocals, result, outcome, invoked, ws, op_failed,
                  failed_runs, prev >>

\* faulty variant of ScopeExit: the range is ended on the success path only
ScopeExit_SuccessOnly(res) == res

\* lines 131-140: r is destroyed when the loop body is left, by the early
\* return of line 138 as well as at the end of the iteration
ScopeExit(res) == TRUE

\* lines 50-52: the constructor starts a range when the flag is set
RangeStarts(flag) == flag

\* lines 65-68: the destructor ends range_ when the flag is set
RangeEnds(flag) == flag

\* lines 121-131: the loop head and the construction of ProfiledRange r
RunLoop ==
  /\ pc = "run_loop"
  /\ opi <= NumOps
  /\ IF RangeStarts(use_nvtx)
     THEN LET id == nvtx.started + 1
          IN  /\ range_' = id
              /\ open_ranges' = open_ranges \cup {id}
              /\ nvtx' = [nvtx EXCEPT !.started = @ + 1]
     ELSE /\ range_' = 0
          /\ UNCHANGED << open_ranges, nvtx >>
  /\ pc' = "run_op"
  /\ UNCHANGED << netVars, use_nvtx, flag_changed, idx, kind, caller, fails,
                  opi, ret, benchArgs, run_i, timer, benchLocals, result,
                  outcome, trace, invoked, ws, notified, op_failed, history >>

\* the flag is changed (by the environment or by the operator) while the
\* operator of a Run() / RunAsync() call is running
ToggleNvtx ==
  /\ pc = "run_op"
  /\ kind \in {"Run", "RunAsync"}
  /\ use_nvtx' = ~use_nvtx
  /\ flag_changed' = TRUE
  /\ UNCHANGED << netVars, range_, nvtx, open_ranges, pc, idx, kind, caller,
                  fails, opi, ret, benchArgs, run_i, timer, benchLocals,
                  result, outcome, trace, invoked, ws, notified, op_failed,
                  history >>

\* lines 132-140: op->Run(), the handling of its result and the destruction
\* of r
RunOp ==
  /\ pc = "run_op"
  /\ LET op == RangeFor(operators_, opi)
         p == PositionOf(op)
         res == OpRun(p)
         todo == OnOperatorResult(res)
     IN  /\ trace' = Append(trace, EvOp(p))
                       \o (IF todo.stop_observers THEN <<EvStop>> ELSE <<>>)
         /\ invoked' = [invoked EXCEPT ![p] = @ + 1]
         /\ op_failed' = (op_failed \/ ~res)
         /\ timer' = IF caller = "main" THEN timer + OpMillis(p) ELSE timer
         /\ notified' = IF todo.stop_observers
                        THEN [notified EXCEPT !.stop = @ + 1] ELSE notified
         /\ unpaired' = IF todo.stop_observers THEN unpaired - 1 ELSE unpaired
         /\ \E wrote \in OpWrites(res) :
              ws' = IF todo.undo THEN Zeros(NumOps)
                    ELSE [ws EXCEPT ![p] = @ + wrote]
         /\ IF ScopeExit(res) /\ RangeEnds(use_nvtx)
            THEN IF range_ \in open_ranges
                 THEN /\ open_ranges' = open_ranges \ {range_}
                      /\ nvtx' = [nvtx EXCEPT !.ended = @ + 1]
                 ELSE /\ nvtx' = [nvtx EXCEPT !.bad_end = @ + 1]
                      /\ UNCHANGED open_ranges
            ELSE UNCHANGED << open_ranges, nvtx >>
         /\ range_' = 0
         /\ IF todo.return_false
            THEN /\ ret' = FALSE
                 /\ failed_runs' = failed_runs + 1
                 /\ opi' = 0
                 /\ pc' = "run_ret"
            ELSE /\ opi' = opi + 1
                 /\ pc' = "run_loop"
                 /\ UNCHANGED << ret, failed_runs >>
  /\ UNCHANGED << netVars, use_nvtx, flag_changed, idx, kind, caller, fails,
                  benchArgs, run_i, benchLocals, result, outcome, prev >>

\* lines 141-142: StopAllObservers(); return true
RunEnd ==
  /\ pc = "run_loop"
  /\ opi > NumOps
  /\ trace' = Append(trace, EvStop)
  /\ notified' = [notified EXCEPT !.stop = @ + 1]
  /\ unpaired' = unpaired - 1
  /\ ret' = TRUE
  /\ opi' = 0
  /\ pc' = "run_ret"
  /\ UNCHANGED << netVars, profVars, idx, kind, caller, fails, benchArgs, run_i, timer,
                  benchLocals, result, outcome, invoked, ws, op_failed,
                  failed_runs, prev >>

\* Run() returns its bool to the caller of the public method
RunReturn ==
  /\ pc = "run_ret"
  /\ caller = "api"
  /\ outcome' = "returned"
  /\ caller' = "none"
  /\ pc' = "done"
  /\ UNCHANGED << netVars, profVars, idx, kind, fails, opi, ret, benchArgs, run_i,
                  timer, benchLocals, result, trace, invoked, ws, notified,
                  op_failed, history >>

\* ------------------------------------------------------------ RunAsync()
\* faulty variant of RunAsync: reports success at once, nothing has run when
\* it returns
RunAsync_NoWait ==
  /\ pc = "idle"
  /\ failed_runs < MaxFailedRuns
  /\ \E f \in SUBSET Positions : fails' = f
  /\ kind' = "RunAsync"
  /\ ret' = TRUE
  /\ outcome' = "returned"
  /\ pc' = "done"
  /\ \E b \in BOOLEAN : use_nvtx' = b
  /\ UNCHANGED << netVars, range_, nvtx, open_ranges, flag_changed, idx,
                  caller, opi, benchArgs, run_i, timer, benchLocals, result,
                  trace, invoked, ws, notified, op_failed, history >>

\* lines 145-146: RunAsync() calls Run()
RunAsync ==
  /\ pc = "idle"
  /\ failed_runs < MaxFailedRuns
  /\ \E f \in SUBSET Positions :
       /\ fails' = f
       /\ kind' = "RunAsync"
       /\ caller' = "RunAsync"
       /\ pc' = "run_begin"
  /\ \E b \in BOOLEAN : use_nvtx' = b
  /\ UNCHANGED << netVars, range_, nvtx, open_ranges, flag_changed, idx, opi,
                  ret, benchArgs, run_i, timer, benchLocals, result, outcome,
                  trace, invoked, ws, notified, op_failed, history >>

\* line 146: return Run()
RunAsyncReturn ==
  /\ pc = "run_ret"
  /\ caller = "RunAsync"
  /\ outcome' = "returned"
  /\ caller' = "none"
  /\ pc' = "done"
  /\ UNCHANGED << netVars, profVars, idx, kind, fails, opi, ret, benchArgs, run_i,
                  timer, benchLocals, result, trace, invoked, ws, notified,
                  op_failed, history >>

\* ------------------------------------------------------ TEST_Benchmark()
\* faulty variants of BenchResult: the per-operator entries are dropped; the
\* mean iteration time is not inserted
BenchResult_NoPerOp(tpo, ms, runs) == << FDiv(ms, runs) >>

BenchResult_NoMean(tpo, ms, runs) == [k \in 1..Len(tpo) |-> FDiv(tpo[k], runs)]

\* lines 301-305: divide by main_runs and prepend the mean iteration time
BenchResult(tpo, ms, runs) ==
  << FDiv(ms, runs) >> \o [k \in 1..Len(tpo) |-> FDiv(tpo[k], runs)]

\* faulty variant of NextIdx: the increment is missing
NextIdx_Stuck(k) == k

\* line 229: ++idx
NextIdx(k) == k + 1

\* faulty variant of EnforceRun: a failed run is tolerated
EnforceRun_Tolerant(r) == TRUE

\* CAFFE_ENFORCE(Run(), ...) of lines 168 and 179: does the run pass
EnforceRun(r) == r

\* faulty variant of LoopContinues: one iteration too many
LoopContinues_OffByOne(i, n) == i <= n

\* lines 167, 178 and 195: the loop condition i < n
LoopContinues(i, n) == i < n

\* faulty variant of ResetEvents: no event is reset
ResetEvents_None(rs) == rs

\* lines 196-198: op->ResetEvent() on every operator
ResetEvents(rs) == [p \in DOMAIN rs |-> rs[p] + 1]

\* faulty variant of GatherOnFirstRun: the cost is gathered on every iteration
GatherOnFirstRun_Always(i) == TRUE

\* line 202: if (i == 0)
GatherOnFirstRun(i) == i = 0

\* lines 160-166: entry, and the check of warmup_runs
TEST_Benchmark ==
  /\ pc = "idle"
  /\ failed_runs < MaxFailedRuns
  /\ \E w \in -1..MaxWarmup, m \in -1..MaxMain, d \in BOOLEAN :
       /\ warmup_runs' = w
       /\ main_runs' = m
       /\ run_individual' = d
       /\ IF w >= 0
          THEN /\ pc' = "warmup"
               /\ UNCHANGED outcome
          ELSE /\ pc' = "done"
               /\ outcome' = "fatal"
  /\ kind' = "TEST_Benchmark"
  /\ run_i' = 0
  /\ prev' = NoCall
  /\ \E b \in BOOLEAN : use_nvtx' = b
  /\ UNCHANGED << netVars, range_, nvtx, open_ranges, flag_changed, idx,
                  caller, fails, opi, ret, timer, benchLocals, result, trace,
                  invoked, ws, notified, op_failed, unpaired, failed_runs >>

\* lines 167-177: the warm-up loop head; on exit the check of main_runs and
\* the construction of the Timer
WarmupLoop ==
  /\ pc = "warmup"
  /\ IF LoopContinues(run_i, warmup_runs)
     THEN /\ \E f \in SUBSET Positions : fails' = f
          /\ caller' = "warmup"
          /\ pc' = "run_begin"
          /\ UNCHANGED << run_i, timer, outcome >>
     ELSE /\ IF main_runs >= 0
             THEN /\ pc' = "main"
                  /\ UNCHANGED outcome
             ELSE /\ pc' = "done"
                  /\ outcome' = "fatal"
          /\ timer' = 0
          /\ run_i' = 0
          /\ UNCHANGED << fails, caller >>
  /\ UNCHANGED << netVars, profVars, idx, kind, opi, ret, benchArgs, benchLocals,
                  result, trace, invoked, ws, notified, op_failed, history >>

\* line 168: CAFFE_ENFORCE on the bool a warm-up Run() returned
WarmupReturn ==
  /\ pc = "run_ret"
  /\ caller = "warmup"
  /\ IF EnforceRun(ret)
     THEN /\ run_i' = run_i + 1
          /\ pc' = "warmup"
          /\ UNCHANGED outcome
     ELSE /\ pc' = "done"
          /\ outcome' = "fatal"
          /\ UNCHANGED run_i
  /\ caller' = "none"
  /\ UNCHANGED << netVars, profVars, idx, kind, fails, opi, ret, benchArgs, timer,
                  benchLocals, result, trace, invoked, ws, notified, op_failed,
                  history >>

\* lines 178-194: the timed loop head; on exit millis is read and the
\* per-operator accumulators are created
MainLoop ==
  /\ pc = "main"
  /\ IF LoopContinues(run_i, main_runs)
     THEN /\ \E f \in SUBSET Positions : fails' = f
          /\ caller' = "main"
          /\ pc' = "run_begin"
          /\ UNCHANGED << run_i, benchLocals >>
     ELSE /\ millis' = timer
          /\ time_per_op' = Zeros(NumOps)
          /\ time_per_op_type' = EmptyMap
          /\ detail_time' = Zeros(NumOps)
          /\ flops_per_op' = <<>>
          /\ memory_bytes_per_op' = <<>>
          /\ param_bytes_per_op' = <<>>
          /\ flops_per_op_type' = EmptyMap
          /\ memory_bytes_per_op_type' = EmptyMap
          /\ param_bytes_per_op_type' = EmptyMap
          /\ run_i' = 0
          /\ pc' = IF run_individual THEN "individual" ELSE "return"
          /\ UNCHANGED << fails, caller, resets, cost_evals, report >>
  /\ UNCHANGED << netVars, profVars, idx, kind, opi, ret, benchArgs, timer, result,
                  outcome, trace, invoked, ws, notified, op_failed, history >>

\* line 179: CAFFE_ENFORCE on the bool a timed Run() returned
MainReturn ==
  /\ pc = "run_ret"
  /\ caller = "main"
  /\ IF EnforceRun(ret)
     THEN /\ run_i' = run_i + 1
          /\ pc' = "main"
          /\ UNCHANGED outcome
     ELSE /\ pc' = "done"
          /\ outcome' = "fatal"
          /\ UNCHANGED run_i
  /\ caller' = "none"
  /\ UNCHANGED << netVars, profVars, idx, kind, fails, opi, ret, benchArgs, timer,
                  benchLocals, result, trace, invoked, ws, notified, op_failed,
                  history >>

\* lines 195-199: head of one per-operator iteration; every operator's
\* event is reset before the first one is run
IndividualLoop ==
  /\ pc = "individual"
  /\ IF LoopContinues(run_i, main_runs)
     THEN /\ \E f \in SUBSET Positions : fails' = f
          /\ resets' = ResetEvents(resets)
          /\ idx' = 0
          /\ opi' = 1
          /\ pc' = "individual_cost"
     ELSE /\ pc' = "report"
          /\ UNCHANGED << fails, resets, idx, opi >>
  /\ UNCHANGED << netVars, profVars, kind, caller, ret, benchArgs, run_i, timer,
                  timeLocals, costLocals, cost_evals, report, result, outcome,
                  trace, invoked, ws, notified, op_failed, history >>

\* lines 200-217: the head of the loop over the operators and, on the first
\* iteration, the cost of an operator whose type has a cost function
IndividualCost ==
  /\ pc = "individual_cost"
  /\ IF opi <= NumOps
     THEN LET op == RangeFor(operators_, opi)
              p == PositionOf(op)
              op_type == op.debug_def.type
              cost == InferCost(op)
          IN  /\ IF GatherOnFirstRun(run_i) /\ HasCostInferenceFunction(op_type)
                 THEN /\ cost_evals' = [cost_evals EXCEPT ![p] = @ + 1]
                      /\ flops_per_op' = Append(flops_per_op, cost.flops)
                      /\ memory_bytes_per_op' =
                           Append(memory_bytes_per_op, cost.bytes_moved)
                      /\ param_bytes_per_op' =
                           Append(param_bytes_per_op, cost.params_bytes)
                      /\ flops_per_op_type' =
                           MapAdd(flops_per_op_type, op_type, cost.flops)
                      /\ memory_bytes_per_op_type' =
                           MapAdd(memory_bytes_per_op_type, op_type, cost.bytes_moved)
                      /\ param_bytes_per_op_type' =
                           MapAdd(param_bytes_per_op_type, op_type, cost.params_bytes)
                 ELSE UNCHANGED << costLocals, cost_evals >>
              /\ pc' = "individual_op"
              /\ UNCHANGED run_i
     ELSE /\ run_i' = run_i + 1
          /\ pc' = "individual"
          /\ UNCHANGED << costLocals, cost_evals >>
  /\ UNCHANGED << netVars, profVars, idx, kind, caller, fails, opi, ret,
                  benchArgs, timer, timeLocals, resets, report, result,
                  outcome, trace, invoked, ws, notified, op_failed, history >>

\* lines 218-229: the operator is run and timed
IndividualOp ==
  /\ pc = "individual_op"
  /\ LET op == RangeFor(operators_, opi)
         p == PositionOf(op)
         op_type == op.debug_def.type
         res == OpRun(p)
         spent == OpMillis(p)
     IN  /\ invoked' = [invoked EXCEPT ![p] = @ + 1]
         /\ \E wrote \in OpWrites(res) : ws' = [ws EXCEPT ![p] = @ + wrote]
         /\ op_failed' = (op_failed \/ ~res)
         /\ timer' = spent
         /\ IF EnforceRun(res)
            THEN /\ time_per_op' = [time_per_op EXCEPT ![idx + 1] = @ + spent]
                 /\ time_per_op_type' = MapAdd(time_per_op_type, op_type, spent)
                 /\ detail_time' = [detail_time EXCEPT ![p] = @ + spent]
                 /\ idx' = NextIdx(idx)
                 /\ opi' = opi + 1
                 /\ pc' = "individual_cost"
                 /\ UNCHANGED outcome
            ELSE /\ pc' = "done"
                 /\ outcome' = "fatal"
                 /\ UNCHANGED << time_per_op, time_per_op_type,
                                 detail_time, idx, opi >>
  /\ UNCHANGED << netVars, profVars, kind, caller, fails, ret, benchArgs,
                  run_i, millis, costLocals, resets, cost_evals, report,
                  result, trace, notified, history >>

\* ------------------------------------------------------------ the report
\* lines 241, 247 and 252: the figure of the operator with index k is taken
\* from element k of the vector, and shown when that element exists and is
\* not zero
Figure(v, k) ==
  IF k < Len(v) /\ v[k + 1] # 0
  THEN [shown |-> TRUE, value |-> v[k + 1]]
  ELSE [shown |-> FALSE, value |-> 0]

\* lines 233-260: the line logged for the operator with index k
OpLine(k) ==
  [type |-> RangeFor(operators_, k + 1).debug_def.type,
   time |-> FDiv(time_per_op[k + 1], main_runs),
   flops |-> Figure(flops_per_op, k),
   memory_bytes |-> Figure(memory_bytes_per_op, k),
   param_bytes |-> Figure(param_bytes_per_op, k)]

\* faulty variant of PairLargerThan: the comparison is turned round
PairLargerThan_Smaller(x, y) == x.second < y.second

\* lines 150-153
PairLargerThan(x, y) == x.second > y.second

\* iteration order of a CaffeMap<string, float>, a std::map: ascending keys
TypeOrder == << "A", "B" >>

\* line 276: the vector of pairs built from begin() .. end() of the map
MapItems(m) ==
  LET keys == SelectSeq(TypeOrder, LAMBDA t : t \in DOMAIN m)
  IN  [k \in 1..Len(keys) |-> [first |-> keys[k], second |-> m[keys[k]]]]

\* lines 278-281: std::sort(begin, end, PairLargerThan).  std::sort is not a
\* stable sort: it may return any arrangement of the elements in which no
\* element compares before an earlier one
Sort(v) ==
  { [k \in 1..Len(v) |-> v[f[k]]] : f \in Permutations(1..Len(v)) }

Sorted(v) ==
  { w \in Sort(v) :
      \A i, j \in 1..Len(w) : i < j => ~PairLargerThan(w[j], w[i]) }

RECURSIVE TotalMetric(_)
\* lines 282-285; normalizer[i] is a positive factor of every term
TotalMetric(v) == IF v = <<>> THEN 0 ELSE v[1].second + TotalMetric(Tail(v))

\* lines 287-290; normalizer[i] cancels in the quotient
Percent(value, total_metric) ==
  IF total_metric > 0 THEN FDiv(100 * value, total_metric) ELSE FDiv(0, 1)

\* lines 286-295: the lines logged for the sorted vector
TypeLines(v) ==
  [k \in 1..Len(v) |->
     [type |-> v[k].first,
      value |-> v[k].second,
      percent |-> Percent(v[k].second, TotalMetric(v))]]

\* lines 232-298: the report is logged: one line per operator, then for each
\* of the four metrics the operator types
Report ==
  /\ pc = "report"
  /\ \E t \in Sorted(MapItems(time_per_op_type)),
        f \in Sorted(MapItems(flops_per_op_type)),
        mb \in Sorted(MapItems(memory_bytes_per_op_type)),
        pb \in Sorted(MapItems(param_bytes_per_op_type)) :
       report' =
         [ops |-> [k \in 1..NumOps |-> OpLine(k - 1)],
          types |-> << TypeLines(t), TypeLines(f), TypeLines(mb), TypeLines(pb) >>]
  /\ pc' = "return"
  /\ UNCHANGED << netVars, profVars, idx, kind, caller, fails, opi, ret, benchArgs,
                  run_i, timer, timeLocals, costLocals, resets, cost_evals,
                  result, outcome, trace, invoked, ws, notified, op_failed,
                  history >>

\* lines 300-305: the returned vector
BenchReturn ==
  /\ pc = "return"
  /\ result' = BenchResult(time_per_op, millis, main_runs)
  /\ outcome' = "returned"
  /\ pc' = "done"
  /\ UNCHANGED << netVars, profVars, idx, kind, caller, fails, opi, ret, benchArgs,
                  run_i, timer, benchLocals, trace, invoked, ws, notified,
                  op_failed, history >>

\* the caller takes the outcome of the public call and is free to call again
Resume ==
  /\ pc = "done"
  /\ prev' = IF kind \in {"Run", "RunAsync"}
             THEN [kind |-> kind, fails |-> fails, ret |-> ret, trace |-> trace]
             ELSE NoCall
  /\ pc' = "idle"
  /\ kind' = "none"
  /\ fails' = {}
  /\ ret' = FALSE
  /\ outcome' = "none"
  /\ result' = <<>>
  /\ trace' = <<>>
  /\ invoked' = Zeros(NumOps)
  /\ notified' = [start |-> 0, stop |-> 0]
  /\ op_failed' = FALSE
  /\ warmup_runs' = 0
  /\ main_runs' = 0
  /\ run_individual' = FALSE
  /\ run_i' = 0
  /\ idx' = 0
  /\ timer' = 0
  /\ millis' = 0
  /\ time_per_op' = <<>>
  /\ time_per_op_type' = EmptyMap
  /\ detail_time' = <<>>
  /\ flops_per_op' = <<>>
  /\ memory_bytes_per_op' = <<>>
  /\ param_bytes_per_op' = <<>>
  /\ flops_per_op_type' = EmptyMap
  /\ memory_bytes_per_op_type' = EmptyMap
  /\ param_bytes_per_op_type' = EmptyMap
  /\ resets' = Zeros(NumOps)
  /\ cost_evals' = Zeros(NumOps)
  /\ report' = NoReport
  /\ ws' = Zeros(NumOps)
  /\ use_nvtx' = FALSE
  /\ range_' = 0
  /\ nvtx' = NoRanges
  /\ open_ranges' = {}
  /\ flag_changed' = FALSE
  /\ opi' = 0
  /\ caller' = "none"
  /\ UNCHANGED << netVars, unpaired, failed_runs >>

Next ==
  \/ SimpleNet
  \/ Run
  \/ RunBegin
  \/ RunLoop
  \/ ToggleNvtx
  \/ RunOp
  \/ RunEnd
  \/ RunReturn
  \/ RunAsync
  \/ RunAsyncReturn
  \/ TEST_Benchmark
  \/ WarmupLoop
  \/ WarmupReturn
  \/ MainLoop
  \/ MainReturn
  \/ IndividualLoop
  \/ IndividualCost
  \/ IndividualOp
  \/ Report
  \/ BenchReturn
  \/ Resume

Spec == Init /\ [][Next]_vars

\* ------------------------------------------------------------- properties
Bench == "TEST_Benchmark"

\* positions of the operators run so far in this Run(), in order of invocation
RunInvocations ==
  LET ops == SelectSeq(trace, LAMBDA e : e.ev = "op")
  IN  [k \in 1..Len(ops) |-> ops[k].op]

Count(ev) == Cardinality({k \in 1..Len(trace) : trace[k].ev = ev})

UpTo(n) == [k \in 1..n |-> k]

FirstFailing(k) == k \in fails /\ \A j \in 1..(k - 1) : j \notin fails

RECURSIVE SumMillis(_)
SumMillis(n) == IF n = 0 THEN 0 ELSE OpMillis(n) + SumMillis(n - 1)

BenchReturned == pc = "done" /\ kind = Bench /\ outcome = "returned"

\* C1: when every operator of a net of N >= 1 operators succeeds, a Run()
\* call returns true having run each operator exactly once, in the order
\* 1..N of construction.
C1_RunAllSucceed ==
  (pc = "run_ret" /\ NumOps >= 1 /\ \A p \in Positions : OpRun(p)) =>
    /\ ret = TRUE
    /\ RunInvocations = UpTo(NumOps)

C1_Witness ==
  /\ pc = "run_ret"
  /\ caller = "api"
  /\ NumOps = 2
  /\ fails = {}
  /\ ret = TRUE

\* C2: when the k-th operator is the one that fails during Run(), operators
\* 1..k have each been run exactly once, operators k+1..N are never run in
\* that call, and Run() returns false.
C2_RunStopsAtFailure ==
  \A k \in Positions :
    FirstFailing(k) =>
      /\ pc \in {"run_loop", "run_op", "run_ret"} =>
           \E n \in 0..k : RunInvocations = UpTo(n)
      /\ pc = "run_ret" =>
           /\ ret = FALSE
           /\ RunInvocations = UpTo(k)

C2_Witness ==
  /\ pc = "run_ret"
  /\ NumOps = 2
  /\ fails = {1}
  /\ ret = FALSE
  /\ invoked[2] = 0

\* C3: RunAsync() and Run() are observably equivalent: under the same
\* operator behaviour a completed RunAsync() and a completed Run() have the
\* same return value and the same sequence of observer notifications and
\* operator runs, and when RunAsync() returns that sequence is complete (it
\* ends with the stop notification or with the failing operator).
C3_RunAsyncIsRun ==
  /\ ( /\ pc = "done"
       /\ kind \in {"Run", "RunAsync"}
       /\ prev.kind \in {"Run", "RunAsync"}
       /\ prev.kind # kind
       /\ prev.fails = fails ) =>
        /\ ret = prev.ret
        /\ trace = prev.trace
  /\ (pc = "done" /\ kind = "RunAsync") =>
        /\ outcome = "returned"
        /\ Len(trace) >= 1
        /\ LET last == trace[Len(trace)]
           IN  IF ret THEN last = EvStop
               ELSE last.ev = "op" /\ ~OpRun(last.op)

C3_Witness ==
  /\ pc = "done"
  /\ kind = "RunAsync"
  /\ prev.kind = "Run"
  /\ prev.fails = fails
  /\ NumOps = 2
  /\ fails = {2}
  /\ ret = FALSE

\* C4 as stated: a returned benchmark has N+1 entries, entry 0 the mean
\* iteration time and entry p the mean time of a run of the p-th operator,
\* whatever run_individual is.
C4_Original ==
  BenchReturned =>
    /\ Len(result) = NumOps + 1
    /\ result[1] = FDiv(main_runs * SumMillis(NumOps), main_runs)
    /\ \A p \in Positions :
         result[p + 1] = FDiv(main_runs * OpMillis(p), main_runs)

\* C4 (amended): a returned benchmark has N+1 entries whatever
\* run_individual is; entry 0 is the time of the main_runs timed runs divided
\* by main_runs, and entry p is the time accumulated for the p-th operator in
\* the per-operator loop divided by main_runs: the operator's mean time when
\* run_individual is true, zero when it is false.
C4_BenchResultShape ==
  BenchReturned =>
    /\ Len(result) = NumOps + 1
    /\ millis = main_runs * SumMillis(NumOps)
    /\ result[1] = FDiv(millis, main_runs)
    /\ \A p \in Positions :
         /\ result[p + 1] = FDiv(detail_time[p], main_runs)
         /\ detail_time[p] = IF run_individual THEN main_runs * OpMillis(p) ELSE 0

C4_Witness ==
  /\ BenchReturned
  /\ run_individual
  /\ main_runs = 2
  /\ NumOps = 2
  /\ result[3] = FDiv(4, 2)

\* C5 as stated: without run_individual the returned vector has one element.
C5_Original ==
  (BenchReturned /\ ~run_individual) => Len(result) = 1

\* C5 (amended): without run_individual the returned vector still has N+1
\* entries: the mean iteration time followed by one entry per operator that
\* holds no measurement (0 / main_runs); no per-operator or per-type time is
\* accumulated.  It has one element only for a net without operators.
C5_NoDetailResult ==
  (BenchReturned /\ ~run_individual) =>
    /\ Len(result) = NumOps + 1
    /\ result[1] = FDiv(millis, main_runs)
    /\ \A p \in Positions : result[p + 1] = FDiv(0, main_runs)
    /\ time_per_op = Zeros(NumOps)
    /\ time_per_op_type = EmptyMap

C5_Witness ==
  /\ BenchReturned
  /\ ~run_individual
  /\ warmup_runs = 0
  /\ main_runs = 1
  /\ NumOps = 2
  /\ Len(result) = 3

\* C6: a benchmark called with a negative warmup_runs or a negative
\* main_runs ends fatally before any operator has been run and before any
\* observer has been notified.
C6_Claim ==
  (kind = Bench /\ (warmup_runs < 0 \/ main_runs < 0)) =>
    /\ \A p \in Positions : invoked[p] = 0
    /\ notified = [start |-> 0, stop |-> 0]
    /\ pc = "done" => outcome = "fatal"

C7_State ==
  /\ (kind = Bench /\ op_failed) =>
        \/ pc = "run_ret" /\ ret = FALSE
        \/ pc = "done" /\ outcome = "fatal" /\ result = <<>>
  /\ (kind \in {"Run", "RunAsync"} /\ op_failed) =>
        /\ outcome # "fatal"
        /\ pc = "done" => (outcome = "returned" /\ ret = FALSE)

C7_Step == (op_failed /\ pc # "done") => invoked' = invoked

\* C7: inside the benchmark a failing operator (in a warm-up run, a timed
\* run or the per-operator loop) ends the call fatally without a result and
\* no operator is run after it; in Run() / RunAsync() the same failure is a
\* false return value and never fatal.
C7_FailureSeverity == [](C7_State) /\ [][C7_Step]_vars

C7_Witness ==
  /\ pc = "done"
  /\ kind = Bench
  /\ outcome = "fatal"
  /\ op_failed
  /\ run_individual
  /\ run_i = 1
  /\ fails = {2}
  /\ invoked[2] = warmup_runs + 2 * main_runs

\* C8: in every Run() the start notification is issued once and first; the
\* stop notification is issued once, last, exactly when every operator
\* succeeded, and not at all when one failed.  So whenever no Run() is
\* between its start and its return, starts minus stops equals the number
\* of Run() calls that returned false.
C8_ObserverPairing ==
  /\ pc \in {"run_loop", "run_op", "run_ret"} =>
        /\ trace[1] = EvStart
        /\ Count("start") = 1
  /\ pc \in {"run_loop", "run_op"} => Count("stop") = 0
  /\ pc = "run_ret" =>
        IF ret
        THEN /\ Count("stop") = 1
             /\ trace[Len(trace)] = EvStop
             /\ RunInvocations = UpTo(NumOps)
        ELSE Count("stop") = 0
  /\ pc \notin {"run_loop", "run_op"} => unpaired = failed_runs

C8_Witness ==
  /\ pc = "run_ret"
  /\ ret = FALSE
  /\ Count("start") = 1
  /\ Count("stop") = 0
  /\ failed_runs = 2
  /\ unpaired = 2

PlacementOf(k) == operators_[k].debug_def.device_option

\* C9: after construction, an operator whose OperatorDef has no device
\* option in a net that has one carries the net's device option; an
\* OperatorDef with its own device option keeps it; without either, the
\* operator has none.
C9_DevicePropagation ==
  pc # "ctor" =>
    \A k \in 1..Len(net_def.op) :
      LET def == net_def.op[k]
      IN  /\ k <= NumOps
          /\ (~has_device_option(def) /\ has_device_option(net_def)) =>
               PlacementOf(k) = net_def.device_option
          /\ has_device_option(def) =>
               PlacementOf(k) = def.device_option
          /\ (~has_device_option(def) /\ ~has_device_option(net_def)) =>
               PlacementOf(k) = NoDevice

C9_Witness ==
  /\ pc = "idle"
  /\ has_device_option(net_def)
  /\ NumOps = 2
  /\ ~has_device_option(net_def.op[1])
  /\ has_device_option(net_def.op[2])
  /\ PlacementOf(1) = "CUDA"
  /\ PlacementOf(2) = "CPU"

C10_State ==
  pc # "ctor" =>
    /\ Len(operators_) = Len(net_def.op)
    /\ \A k \in 1..Len(operators_) :
         /\ operators_[k].net_position = k - 1
         /\ operators_[k].debug_def.type = net_def.op[k].type
         /\ operators_[k].owns_def = (PlacementOf(k) # net_def.op[k].device_option)

C10_Step == pc # "ctor" => operators_' = operators_

\* C10: once constructed, and across every Run, RunAsync and benchmark call,
\* operators_ has one operator per OperatorDef of the net, the k-th built
\* from the k-th OperatorDef, and no step changes the list.
C10_OperatorListFixed == [](C10_State) /\ [][C10_Step]_vars

C10_Witness ==
  /\ pc = "done"
  /\ kind = Bench
  /\ outcome = "fatal"
  /\ failed_runs = 2
  /\ NumOps = 2
  /\ net_def.op[1] # net_def.op[2]

RECURSIVE SumSeq(_)
SumSeq(q) == IF q = <<>> THEN 0 ELSE q[1] + SumSeq(Tail(q))

InRun == pc \in {"run_loop", "run_op", "run_ret"}

\* C11: while the flag keeps one value through the call: when it is set,
\* every operator run of Run() starts one range before op->Run() and ends
\* that range after it, on the failing return as on the success path, so at
\* most one range is open and none is when Run() returns; when it is clear,
\* no range is started or ended.
C11_RangePerInvocation ==
  ~flag_changed =>
    IF use_nvtx
    THEN /\ nvtx.bad_end = 0
         /\ pc = "run_op" =>
              /\ range_ # 0
              /\ open_ranges = {range_}
              /\ nvtx.started = SumSeq(invoked) + 1
              /\ nvtx.ended = SumSeq(invoked)
         /\ pc # "run_op" =>
              /\ open_ranges = {}
              /\ nvtx.started = nvtx.ended
         /\ pc \in {"run_loop", "run_ret"} => nvtx.ended = SumSeq(invoked)
    ELSE /\ nvtx = NoRanges
         /\ open_ranges = {}

C11_Witness ==
  /\ pc = "run_ret"
  /\ caller = "api"
  /\ ret = FALSE
  /\ use_nvtx
  /\ ~flag_changed
  /\ NumOps = 2
  /\ fails = {2}
  /\ nvtx = [started |-> 2, ended |-> 2, bad_end |-> 0]
  /\ open_ranges = {}

\* C20: a range is ended only if it was started and every started range is
\* ended, also when the flag is changed while the operator is running.
C20_Claim ==
  /\ nvtx.bad_end = 0
  /\ pc # "run_op" => open_ranges = {}

C12_State ==
  /\ \A p \in Positions : ws[p] <= invoked[p]
  /\ ~op_failed => ws = invoked
  /\ \A k \in Positions :
       (pc = "run_ret" /\ ~ret /\ FirstFailing(k)) =>
         /\ \A j \in Positions \ {k} : ws[j] = invoked[j]
         /\ ws[k] \in {invoked[k] - 1, invoked[k]}
         /\ kind \in {"Run", "RunAsync"} =>
              /\ \A j \in 1..(k - 1) : ws[j] = 1
              /\ \A j \in (k + 1)..NumOps : ws[j] = 0

C12_Step ==
  pc \in {"run_begin", "run_loop", "run_op", "run_ret"} =>
    \A p \in Positions : ws'[p] >= ws[p]

\* C12: when the k-th operator fails in Run(), what operators 1..k-1 wrote
\* to the workspace (and what the k-th wrote before it failed) is still
\* there when Run() returns false: no step of Run() takes anything back.
C12_NoUndoOnFailure == [](C12_State) /\ [][C12_Step]_vars

C12_Witness ==
  /\ pc = "run_ret"
  /\ kind = "Run"
  /\ ret = FALSE
  /\ NumOps = 2
  /\ fails = {2}
  /\ ws = << 1, 1 >>

\* C13: for a net without operators Run() returns true having run nothing,
\* the observers being notified of the start and then of the stop, and a
\* benchmark with warmup_runs >= 0 and main_runs >= 1 returns a vector of
\* exactly one element, with and without run_individual.
C13_ZeroOperators ==
  (pc # "ctor" /\ Len(net_def.op) = 0) =>
    /\ NumOps = 0
    /\ pc = "run_ret" =>
         /\ ret = TRUE
         /\ trace = << EvStart, EvStop >>
         /\ RunInvocations = << >>
    /\ (pc = "done" /\ kind = Bench /\ warmup_runs >= 0 /\ main_runs >= 1) =>
         /\ outcome = "returned"
         /\ Len(result) = 1
         /\ result[1] = FDiv(millis, main_runs)

C13_Witness ==
  /\ BenchReturned
  /\ NumOps = 0
  /\ run_individual
  /\ warmup_runs = 1
  /\ main_runs = 2
  /\ notified = [start |-> 3, stop |-> 3]
  /\ Len(result) = 1

TypeOf(p) == operators_[p].debug_def.type

HasCost(p) == HasCostInferenceFunction(TypeOf(p))

NoFigure == [shown |-> FALSE, value |-> 0]

Shown(v) == [shown |-> TRUE, value |-> v]

ReportLogged ==
  /\ kind = Bench
  /\ run_individual
  /\ pc = "return" \/ (pc = "done" /\ outcome = "returned")

\* C14: in the report of the per-operator phase the flops, bytes moved and
\* parameter bytes shown for the operator at position i are those of the
\* cost inferred for that operator, and an operator whose type has no cost
\* function is shown without cost figures, whatever the mix of operators
\* with and without a cost function.
C14_Claim ==
  (ReportLogged /\ main_runs >= 1) =>
    \A i \in Positions :
      LET line == report.ops[i]
          cost == InferCost(operators_[i])
      IN  IF HasCost(i)
          THEN /\ line.flops = Shown(cost.flops)
               /\ line.memory_bytes = Shown(cost.bytes_moved)
               /\ line.param_bytes = Shown(cost.params_bytes)
          ELSE /\ line.flops = NoFigure
               /\ line.memory_bytes = NoFigure
               /\ line.param_bytes = NoFigure

MapGet(m, t) == IF t \in DOMAIN m THEN m[t] ELSE 0

RECURSIVE SumOver(_, _)
\* sum of f[p] over the positions p of the set S
SumOver(f, S) ==
  IF S = {} THEN 0
  ELSE LET p == CHOOSE q \in S : TRUE
       IN  f[p] + SumOver(f, S \ {p})

OfType(t) == {p \in Positions : TypeOf(p) = t}

InDetailIteration == pc \in {"individual_cost", "individual_op"}

\* runs of the operator at position p completed in the current iteration
RanInIteration(p) == IF InDetailIteration /\ p < opi THEN 1 ELSE 0

\* C15: in each of the main_runs iterations of the per-operator phase every
\* operator's event is reset before the first operator is run, then the
\* operators are run one by one, once each, in construction order, and the
\* time of the operator at position i is added to time_per_op[i] and to the
\* entry of its type in time_per_op_type.
C15_DetailIteration ==
  (kind = Bench /\ pc \in {"individual", "individual_cost", "individual_op"}) =>
    /\ InDetailIteration => run_i < main_runs
    /\ \A p \in Positions :
         LET runs == run_i + RanInIteration(p)
         IN  /\ resets[p] = IF InDetailIteration THEN run_i + 1 ELSE run_i
             /\ invoked[p] = warmup_runs + main_runs + runs
             /\ time_per_op[p] = runs * OpMillis(p)
    /\ DOMAIN time_per_op_type =
         {TypeOf(p) : p \in {q \in Positions : run_i + RanInIteration(q) > 0}}
    /\ \A t \in DOMAIN time_per_op_type :
         time_per_op_type[t] = SumOver(time_per_op, OfType(t))

C15_Witness ==
  /\ kind = Bench
  /\ pc = "individual_op"
  /\ run_i = 1
  /\ opi = 2
  /\ NumOps = 2
  /\ TypeOf(1) # TypeOf(2)
  /\ resets = << 2, 2 >>
  /\ time_per_op = << 2, 2 >>

CostPhaseDone ==
  /\ kind = Bench
  /\ run_individual
  /\ main_runs >= 1
  /\ \/ pc \in {"individual", "individual_cost", "individual_op"} /\ run_i >= 1
     \/ pc \in {"report", "return"}
     \/ BenchReturned

Flops(p) == InferCost(operators_[p]).flops
BytesMoved(p) == InferCost(operators_[p]).bytes_moved
ParamsBytes(p) == InferCost(operators_[p]).params_bytes

CostedOfType(t) == {p \in OfType(t) : HasCost(p)}

\* C16: in the per-operator phase with main_runs >= 1 the cost function is
\* evaluated in the first iteration only, once for each operator whose type
\* has one and never for another, and before that operator is run in that
\* iteration; after the phase the total of each cost metric of a type is
\* the sum of the estimates of the operators of that type, whatever
\* main_runs is.
C16_CostOnce ==
  /\ \A p \in Positions :
       /\ cost_evals[p] <= 1
       /\ ~HasCost(p) => cost_evals[p] = 0
  /\ (kind = Bench /\ InDetailIteration /\ run_i = 0) =>
       /\ \A p \in Positions :
            (p > opi \/ (p = opi /\ pc = "individual_cost")) => cost_evals[p] = 0
       /\ pc = "individual_op" =>
            /\ cost_evals[opi] = IF HasCost(opi) THEN 1 ELSE 0
            /\ invoked[opi] = warmup_runs + main_runs
  /\ CostPhaseDone =>
       /\ \A p \in Positions : cost_evals[p] = IF HasCost(p) THEN 1 ELSE 0
       /\ DOMAIN flops_per_op_type = {TypeOf(p) : p \in {q \in Positions : HasCost(q)}}
       /\ DOMAIN memory_bytes_per_op_type = DOMAIN flops_per_op_type
       /\ DOMAIN param_bytes_per_op_type = DOMAIN flops_per_op_type
       /\ \A t \in DOMAIN flops_per_op_type :
            /\ flops_per_op_type[t] =
                 SumOver([p \in Positions |-> Flops(p)], CostedOfType(t))
            /\ memory_bytes_per_op_type[t] =
                 SumOver([p \in Positions |-> BytesMoved(p)], CostedOfType(t))
            /\ param_bytes_per_op_type[t] =
                 SumOver([p \in Positions |-> ParamsBytes(p)], CostedOfType(t))

C16_Witness ==
  /\ BenchReturned
  /\ run_individual
  /\ main_runs = 2
  /\ NumOps = 2
  /\ cost_evals = << 1, 1 >>
  /\ flops_per_op_type = ("A" :> 30)

\* C18: when every operator succeeds and warmup_runs, main_runs are valid,
\* one benchmark runs every operator warmup_runs + main_runs times without
\* run_individual and warmup_runs + 2 * main_runs times with it; in both
\* cases the observers are notified of warmup_runs + main_runs starts and as
\* many stops: the per-operator phase notifies no observer and starts no
\* profiling range.
C18_BenchCounts ==
  (kind = Bench /\ ~op_failed /\ warmup_runs >= 0 /\ main_runs >= 0) =>
    LET runs == warmup_runs + main_runs
        ranges == IF use_nvtx THEN runs * NumOps ELSE 0
    IN  /\ pc = "done" =>
             /\ outcome = "returned"
             /\ \A p \in Positions :
                  invoked[p] = runs + (IF run_individual THEN main_runs ELSE 0)
        /\ pc \in {"individual", "individual_cost", "individual_op",
                   "report", "return", "done"} =>
             /\ notified = [start |-> runs, stop |-> runs]
             /\ nvtx = [started |-> ranges, ended |-> ranges, bad_end |-> 0]
             /\ open_ranges = {}

C18_Witness ==
  /\ BenchReturned
  /\ run_individual
  /\ use_nvtx
  /\ warmup_runs = 1
  /\ main_runs = 2
  /\ NumOps = 2
  /\ invoked = << 5, 5 >>
  /\ notified = [start |-> 3, stop |-> 3]
  /\ nvtx.started = 6

\* C19: Run() keeps nothing from one call to the next: after earlier Run()
\* / RunAsync() calls, one that stopped at a failing operator included, a
\* Run() notifies the start and runs the operators from the first one in
\* construction order; its outcome depends on how the operators behave in
\* this call only, it does not resume where the failed call stopped and it
\* does not refuse to run.
C19_NoStateBetweenCalls ==
  (kind \in {"Run", "RunAsync"} /\ (prev.kind # "none" \/ failed_runs > 0)) =>
    /\ pc \in {"run_loop", "run_op", "run_ret", "done"} =>
         /\ Len(trace) >= 1
         /\ trace[1] = EvStart
         /\ \E n \in 0..NumOps : RunInvocations = UpTo(n)
    /\ pc \in {"run_ret", "done"} =>
         /\ ret = (fails = {})
         /\ ret => RunInvocations = UpTo(NumOps)
         /\ \A k \in Positions : FirstFailing(k) => RunInvocations = UpTo(k)

C19_Witness ==
  /\ pc = "run_ret"
  /\ kind = "Run"
  /\ prev.kind = "Run"
  /\ prev.ret = FALSE
  /\ prev.fails = {2}
  /\ NumOps = 2
  /\ fails = {}
  /\ ret = TRUE
  /\ RunInvocations = << 1, 2 >>

\* ------------------------------------------- the report, for any timings
\* The report as a function of what the per-operator loop measured.  The
\* timer is external, so the state the report starts from is the one after
\* the per-operator loop of a benchmark (warmup_runs = 0) of a constructed
\* net, with the time accumulated for each operator drawn from 0..MaxMillis.
CostedPositions == SelectSeq(UpTo(NumOps), LAMBDA p : HasCost(p))

InitReport ==
  /\ net_def \in NetDefs
  /\ operators_ = [k \in 1..Len(net_def.op) |-> NewOperator(net_def, k - 1)]
  /\ pc = "report"
  /\ kind = Bench
  /\ caller = "none"
  /\ fails = {}
  /\ ret = TRUE
  /\ warmup_runs = 0
  /\ main_runs \in 1..MaxMain
  /\ run_individual = TRUE
  /\ run_i = main_runs
  /\ idx = NumOps
  /\ opi = NumOps + 1
  /\ timer = 0
  /\ millis = 0
  /\ time_per_op \in [Positions -> 0..MaxMillis]
  /\ detail_time = time_per_op
  /\ time_per_op_type =
       [t \in {TypeOf(p) : p \in Positions} |-> SumOver(time_per_op, OfType(t))]
  /\ flops_per_op = [k \in 1..Len(CostedPositions) |-> Flops(CostedPositions[k])]
  /\ memory_bytes_per_op =
       [k \in 1..Len(CostedPositions) |-> BytesMoved(CostedPositions[k])]
  /\ param_bytes_per_op =
       [k \in 1..Len(CostedPositions) |-> ParamsBytes(CostedPositions[k])]
  /\ flops_per_op_type =
       [t \in {TypeOf(p) : p \in {q \in Positions : HasCost(q)}} |->
          SumOver([p \in Positions |-> Flops(p)], CostedOfType(t))]
  /\ memory_bytes_per_op_type =
       [t \in {TypeOf(p) : p \in {q \in Positions : HasCost(q)}} |->
          SumOver([p \in Positions |-> BytesMoved(p)], CostedOfType(t))]
  /\ param_bytes_per_op_type =
       [t \in {TypeOf(p) : p \in {q \in Positions : HasCost(q)}} |->
          SumOver([p \in Positions |-> ParamsBytes(p)], CostedOfType(t))]
  /\ result = <<>>
  /\ outcome = "none"
  /\ trace = << EvStart >> \o [p \in Positions |-> EvOp(p)] \o << EvStop >>
  /\ invoked = [p \in Positions |-> 2 * main_runs]
  /\ ws = invoked
  /\ notified = [start |-> main_runs, stop |-> main_runs]
  /\ op_failed = FALSE
  /\ resets = [p \in Positions |-> main_runs]
  /\ cost_evals = [p \in Positions |-> IF HasCost(p) THEN 1 ELSE 0]
  /\ report = NoReport
  /\ use_nvtx = FALSE
  /\ range_ = 0
  /\ nvtx = NoRanges
  /\ open_ranges = {}
  /\ flag_changed = FALSE
  /\ unpaired = 0
  /\ failed_runs = 0
  /\ prev = NoCall

NextReport ==
  \/ Report
  \/ BenchReturn

SpecReport == InitReport /\ [][NextReport]_vars

Metrics ==
  << time_per_op_type, flops_per_op_type, memory_bytes_per_op_type,
     param_bytes_per_op_type >>

MapTotal(m) == SumOver(m, DOMAIN m)

RankOf(t) == CHOOSE k \in 1..Len(TypeOrder) : TypeOrder[k] = t

\* the lines of metric i are the entries of its map, largest value first,
\* each with its share of the total
ListedByValue(i) ==
  LET lines == report.types[i]
      m == Metrics[i]
  IN  /\ Len(lines) = Cardinality(DOMAIN m)
      /\ {lines[k].type : k \in 1..Len(lines)} = DOMAIN m
      /\ \A k \in 1..Len(lines) :
           /\ lines[k].value = m[lines[k].type]
           /\ lines[k].percent =
                IF MapTotal(m) > 0
                THEN FDiv(100 * lines[k].value, MapTotal(m))
                ELSE FDiv(0, 1)
      /\ \A j, k \in 1..Len(lines) : j < k => lines[j].value >= lines[k].value

\* two types with the same value are listed in the map's traversal order
TiesInTraversalOrder(i) ==
  LET lines == report.types[i]
  IN  \A j, k \in 1..Len(lines) :
        (j < k /\ lines[j].value = lines[k].value) =>
          RankOf(lines[j].type) < RankOf(lines[k].type)

\* C17 as stated: for each of the four metrics the types are listed in
\* descending order of value, types of equal value in the traversal order of
\* the map, each with the percentage 100 * value / total, 0 when the total
\* is zero.
C17_Original ==
  ReportLogged =>
    \A i \in 1..4 : ListedByValue(i) /\ TiesInTraversalOrder(i)

\* C17 (amended): for each of the four metrics the types are listed in
\* descending order of value, each with the percentage 100 * value / total,
\* 0 when the total is zero; the order of two types of equal value is not
\* determined.
C17_ReportOrder ==
  ReportLogged => \A i \in 1..4 : ListedByValue(i)

C17_Witness ==
  /\ ReportLogged
  /\ time_per_op_type = ("A" :> 1) @@ ("B" :> 2)
  /\ report.types[1] =
       << [type |-> "B", value |-> 2, percent |-> FDiv(200, 3)],
          [type |-> "A", value |-> 1, percent |-> FDiv(100, 3)] >>

====
